---- MODULE Spec2Model ----
\* MultiProposersWorker (vllm/spec_decode/multi_proposers_worker.py): the
\* coordinator that selects one proposer for a batch (_get_proposer_for_this_step,
\* get_spec_proposals), delegates execution steps (execute_model) and splits a
\* batch over several proposers concurrently (_get_combined_spec_proposals).
\*
\* Sequences are 1-based here; the source's index idx is idx + 1 in the model.
EXTENDS Integers, Sequences, FiniteSets, TLC

\* ---------------------------------------------------------------------------
\* Bounds of the model
\* ---------------------------------------------------------------------------

\* longest seq_group_metadata_list of a request
MaxLen == 3

\* most SmallerTpProposerWorker wrappers around a worker, in SpecRegistry
MaxWrapDepth == 1

\* longest seq_group_metadata_list of a request, in SpecRegistry
MaxRegistryLen == 1

\* ---------------------------------------------------------------------------
\* Values
\* ---------------------------------------------------------------------------

\* the hard-coded backup proposer name '[ngram]'
Fallback == "[ngram]"

\* seq.spec_decode_params is None
NoParams == "<None>"

\* proposer names a request may carry
ProposerNames == {Fallback, "A", "B"}

\* The names that may be keys of worker_list. A name a request carries is
\* unknown to a coordinator whose worker_list lacks it.
WorkerNames == {Fallback, "A", "B"}

\* the values of schedule_policy
Policies == {"popularity", "proposal_latency", "proposal_quality", "round_robin"}

\* A worker object is the chain of classes from the object itself down through
\* its _worker attributes: <<"SmallerTpProposerWorker", "MultiStepWorker">> is a
\* SmallerTpProposerWorker whose _worker is a MultiStepWorker, and
\* <<"SmallerTpProposerWorker">> is one that has no _worker attribute.
MultiStep == <<"MultiStepWorker">>
NGram == <<"NGramWorker">>
SmallerTp == <<"SmallerTpProposerWorker", "MultiStepWorker">>

\* the worker objects a worker_list is built from
WorkerObjects == {MultiStep, NGram, SmallerTp}

\* The worker_list values the constructor's caller passes: the backup proposer
\* '[ngram]' is always a key, an NGramWorker or any other worker.
Registries ==
    { w \in UNION { [K -> WorkerObjects] : K \in SUBSET WorkerNames } :
        Fallback \in DOMAIN w }

\* n SmallerTpProposerWorker wrappers, each the _worker of the one before
Wrappers(n) == [k \in 1..n |-> "SmallerTpProposerWorker"]

\* every worker object of at most MaxWrapDepth wrappers: the wrappers around
\* a MultiStepWorker, around an NGramWorker, or the innermost wrapper
\* lacking its _worker attribute
WrappedObjects ==
    UNION { { Wrappers(n) \o MultiStep, Wrappers(n) \o NGram } \cup
            (IF n > 0 THEN { Wrappers(n) } ELSE {}) : n \in 0..MaxWrapDepth }

\* the worker_list values of SpecRegistry: as Registries, over WrappedObjects
WrappedRegistries ==
    { w \in UNION { [K -> WrappedObjects] : K \in SUBSET WorkerNames } :
        Fallback \in DOMAIN w }

\* the orders a dict with the key set K may hold its keys in
KeyOrders(K) ==
    { q \in [1..Cardinality(K) -> K] : \A i, j \in DOMAIN q : q[i] = q[j] => i = j }

\* one SequenceGroupMetadata: its identity and the proposer of its
\* spec_decode_params (NoParams when spec_decode_params is None)
SeqGroup(id, p) == [request_id |-> id, proposer |-> p]

\* the batches a request may carry: request ids 101, 102, ... in batch order
Batches ==
    UNION { { [i \in 1..n |-> SeqGroup(100 + i, f[i])] :
                f \in [1..n -> ProposerNames \cup {NoParams}] } : n \in 0..MaxLen }

\* the batches of SpecRegistry
ShortBatches == { b \in Batches : Len(b) <= MaxRegistryLen }

\* ---------------------------------------------------------------------------
\* Python dicts: insertion-ordered sequences of <<key, value>>
\* ---------------------------------------------------------------------------

DictKeys(d) == { d[k][1] : k \in 1..Len(d) }

DictGet(d, key) == d[CHOOSE k \in 1..Len(d) : d[k][1] = key][2]

DictSet(d, key, v) ==
    IF key \in DictKeys(d)
    THEN [k \in 1..Len(d) |-> IF d[k][1] = key THEN <<key, v>> ELSE d[k]]
    ELSE Append(d, <<key, v>>)

\* ---------------------------------------------------------------------------
\* is_multi_step_worker_instance
\* ---------------------------------------------------------------------------

RECURSIVE is_multi_step_worker_instance(_)
\* "True", "False", or "None" when the function falls off its end
is_multi_step_worker_instance(obj) ==
    IF Head(obj) = "MultiStepWorker" THEN "True"
    ELSE IF Head(obj) = "SmallerTpProposerWorker"
         THEN IF Len(obj) > 1
              THEN is_multi_step_worker_instance(Tail(obj))
              ELSE "None"
         ELSE "False"

\* Python truth value of the probe's result, as `if` reads it
Truthy(v) == v = "True"

\* ---------------------------------------------------------------------------
\* _get_proposer_for_this_step
\* ---------------------------------------------------------------------------

RECURSIVE CountProposers(_, _, _, _)
\* the counting loop of the "popularity" policy, from position i on:
\* proposer_count as a dict in insertion order
CountProposers(seqs, valid_proposers, i, proposer_count) ==
    IF i > Len(seqs) THEN proposer_count
    ELSE LET proposer == seqs[i].proposer IN
         IF proposer = NoParams
         THEN CountProposers(seqs, valid_proposers, i + 1, proposer_count)
         ELSE IF proposer \notin valid_proposers
         THEN CountProposers(seqs, valid_proposers, i + 1, proposer_count)
         ELSE LET zeroed == IF proposer \notin DictKeys(proposer_count)
                            THEN DictSet(proposer_count, proposer, 0)
                            ELSE proposer_count
              IN CountProposers(seqs, valid_proposers, i + 1,
                     DictSet(zeroed, proposer, DictGet(zeroed, proposer) + 1))

RECURSIVE MaxByCountLast(_, _, _)
\* MaxByCount replacing the best also by an equal count
MaxByCountLast(proposer_count, k, best) ==
    IF k > Len(proposer_count) THEN best
    ELSE MaxByCountLast(proposer_count, k + 1,
             IF proposer_count[k][2] >= DictGet(proposer_count, best)
             THEN proposer_count[k][1] ELSE best)

RECURSIVE MaxByCount(_, _, _)
\* max(proposer_count, key=proposer_count.get): iterates the keys in dict
\* order and replaces the best only by a strictly larger count
MaxByCount(proposer_count, k, best) ==
    IF k > Len(proposer_count) THEN best
    ELSE MaxByCount(proposer_count, k + 1,
             IF proposer_count[k][2] > DictGet(proposer_count, best)
             THEN proposer_count[k][1] ELSE best)

\* the "popularity" branch
PopularityChoice(seqs, valid_proposers) ==
    LET proposer_count == CountProposers(seqs, valid_proposers, 1, <<>>) IN
    IF Len(proposer_count) # 0
    THEN MaxByCount(proposer_count, 2, proposer_count[1][1])
    ELSE Fallback

RECURSIVE LatencyScanUnchecked(_, _, _, _)
\* LatencyScan without the test against valid_proposers
LatencyScanUnchecked(seqs, valid_proposers, i, chosen_proposer) ==
    IF i > Len(seqs) THEN chosen_proposer
    ELSE LET proposer == seqs[i].proposer IN
         IF proposer = NoParams
         THEN LatencyScanUnchecked(seqs, valid_proposers, i + 1, chosen_proposer)
         ELSE IF proposer = Fallback
         THEN proposer
         ELSE LatencyScanUnchecked(seqs, valid_proposers, i + 1, proposer)

RECURSIVE LatencyScanNoBreak(_, _, _, _)
\* LatencyScan that goes on scanning after a sequence assigned '[ngram]'
LatencyScanNoBreak(seqs, valid_proposers, i, chosen_proposer) ==
    IF i > Len(seqs) THEN chosen_proposer
    ELSE LET proposer == seqs[i].proposer IN
         IF proposer = NoParams
         THEN LatencyScanNoBreak(seqs, valid_proposers, i + 1, chosen_proposer)
         ELSE IF proposer \notin valid_proposers
         THEN LatencyScanNoBreak(seqs, valid_proposers, i + 1, chosen_proposer)
         ELSE LatencyScanNoBreak(seqs, valid_proposers, i + 1, proposer)

RECURSIVE LatencyScanFirstValid(_, _, _, _)
\* LatencyScan that keeps the first registered proposer it meets
LatencyScanFirstValid(seqs, valid_proposers, i, chosen_proposer) ==
    IF i > Len(seqs) THEN chosen_proposer
    ELSE LET proposer == seqs[i].proposer IN
         IF proposer = NoParams
         THEN LatencyScanFirstValid(seqs, valid_proposers, i + 1, chosen_proposer)
         ELSE IF proposer = Fallback
         THEN proposer
         ELSE IF proposer \notin valid_proposers
         THEN LatencyScanFirstValid(seqs, valid_proposers, i + 1, chosen_proposer)
         ELSE LatencyScanFirstValid(seqs, valid_proposers, i + 1,
                  IF chosen_proposer = Fallback THEN proposer ELSE chosen_proposer)

RECURSIVE LatencyScan(_, _, _, _)
\* the loop of the "proposal_latency" branch, from position i on with the
\* running chosen_proposer
LatencyScan(seqs, valid_proposers, i, chosen_proposer) ==
    IF i > Len(seqs) THEN chosen_proposer
    ELSE LET proposer == seqs[i].proposer IN
         IF proposer = NoParams
         THEN LatencyScan(seqs, valid_proposers, i + 1, chosen_proposer)
         ELSE IF proposer = Fallback
         THEN proposer
         ELSE IF proposer \notin valid_proposers
         THEN LatencyScan(seqs, valid_proposers, i + 1, chosen_proposer)
         ELSE LatencyScan(seqs, valid_proposers, i + 1, proposer)

\* LatencyChoice taking the most requested proposer instead
LatencyChoiceByPopularity(seqs, valid_proposers) ==
    PopularityChoice(seqs, valid_proposers)

\* the "proposal_latency" branch
LatencyChoice(seqs, valid_proposers) ==
    LatencyScan(seqs, valid_proposers, 1, Fallback)

\* the outcome of a call: the exception raised ("" when the call returned)
\* and the proposer returned
Returned(p) == [raised |-> "", chosen |-> p]
Raised(e) == [raised |-> e, chosen |-> ""]

\* get_proposer_for_this_step treating every policy it does not know as
\* "proposal_latency"
get_proposer_for_this_step_lenient(seqs, registry, schedule_policy) ==
    LET valid_proposers == DOMAIN registry IN
    IF schedule_policy = "popularity"
    THEN Returned(PopularityChoice(seqs, valid_proposers))
    ELSE Returned(LatencyChoice(seqs, valid_proposers))

\* _get_proposer_for_this_step(execute_model_req, schedule_policy)
get_proposer_for_this_step(seqs, registry, schedule_policy) ==
    LET valid_proposers == DOMAIN registry IN
    IF schedule_policy = "popularity"
    THEN Returned(PopularityChoice(seqs, valid_proposers))
    ELSE IF schedule_policy = "proposal_latency"
    THEN Returned(LatencyChoice(seqs, valid_proposers))
    ELSE IF schedule_policy = "proposal_quality"
    THEN Raised("NotImplementedError")
    ELSE Raised("ValueError")

\* ---------------------------------------------------------------------------
\* execute_model: the scan over seq_group_metadata_list
\* ---------------------------------------------------------------------------

RECURSIVE ExecScanNoSet(_, _, _, _)
\* ExecScan that replaces an unknown proposer without set_proposer
ExecScanNoSet(seqs, registry, i, proposer) ==
    IF i > Len(seqs)
    THEN [seqs |-> seqs, proposer |-> proposer, broke |-> FALSE, stop |-> i]
    ELSE IF seqs[i].proposer = NoParams
    THEN ExecScanNoSet(seqs, registry, i + 1, proposer)
    ELSE LET unknown == seqs[i].proposer \notin DOMAIN registry
             p == IF unknown THEN Fallback ELSE seqs[i].proposer
         IN IF Truthy(is_multi_step_worker_instance(registry[p]))
            THEN [seqs |-> seqs, proposer |-> p, broke |-> TRUE, stop |-> i]
            ELSE ExecScanNoSet(seqs, registry, i + 1, p)

RECURSIVE ExecScanLastWins(_, _, _, _)
\* ExecScan that scans on to the end and delegates to the worker of the last
\* sequence with a present assignment
ExecScanLastWins(seqs, registry, i, proposer) ==
    IF i > Len(seqs)
    THEN [seqs |-> seqs, proposer |-> proposer,
          broke |-> Truthy(is_multi_step_worker_instance(registry[proposer])),
          stop |-> i]
    ELSE IF seqs[i].proposer = NoParams
    THEN ExecScanLastWins(seqs, registry, i + 1, proposer)
    ELSE LET unknown == seqs[i].proposer \notin DOMAIN registry
             p == IF unknown THEN Fallback ELSE seqs[i].proposer
             after == IF unknown
                      THEN [seqs EXCEPT ![i].proposer = Fallback]
                      ELSE seqs
         IN ExecScanLastWins(after, registry, i + 1, p)

RECURSIVE ExecScanCoerceAll(_, _, _, _)
\* ExecScan that calls set_proposer('[ngram]') on every sequence it passes
ExecScanCoerceAll(seqs, registry, i, proposer) ==
    IF i > Len(seqs)
    THEN [seqs |-> seqs, proposer |-> proposer, broke |-> FALSE, stop |-> i]
    ELSE IF seqs[i].proposer = NoParams
    THEN ExecScanCoerceAll(seqs, registry, i + 1, proposer)
    ELSE LET unknown == seqs[i].proposer \notin DOMAIN registry
             p == IF unknown THEN Fallback ELSE seqs[i].proposer
         IN IF Truthy(is_multi_step_worker_instance(registry[p]))
            THEN [seqs |-> seqs, proposer |-> p, broke |-> TRUE, stop |-> i]
            ELSE ExecScanCoerceAll([seqs EXCEPT ![i].proposer = Fallback],
                                   registry, i + 1, p)

RECURSIVE ExecScanBreakOnAny(_, _, _, _)
\* ExecScan that breaks at the first sequence with a present assignment,
\* whatever the probe says of its worker
ExecScanBreakOnAny(seqs, registry, i, proposer) ==
    IF i > Len(seqs)
    THEN [seqs |-> seqs, proposer |-> proposer, broke |-> FALSE, stop |-> i]
    ELSE IF seqs[i].proposer = NoParams
    THEN ExecScanBreakOnAny(seqs, registry, i + 1, proposer)
    ELSE LET unknown == seqs[i].proposer \notin DOMAIN registry
             p == IF unknown THEN Fallback ELSE seqs[i].proposer
             after == IF unknown
                      THEN [seqs EXCEPT ![i].proposer = Fallback]
                      ELSE seqs
         IN [seqs |-> after, proposer |-> p, broke |-> TRUE, stop |-> i]

RECURSIVE ExecScan(_, _, _, _)
\* the for loop from position i on with the running proposer; yields the
\* list as the loop leaves it (set_proposer applied), the proposer, whether
\* the loop ended by break, and the position it stopped at
ExecScan(seqs, registry, i, proposer) ==
    IF i > Len(seqs)
    THEN [seqs |-> seqs, proposer |-> proposer, broke |-> FALSE, stop |-> i]
    ELSE IF seqs[i].proposer = NoParams
    THEN ExecScan(seqs, registry, i + 1, proposer)
    ELSE LET unknown == seqs[i].proposer \notin DOMAIN registry
             p == IF unknown THEN Fallback ELSE seqs[i].proposer
             after == IF unknown
                      THEN [seqs EXCEPT ![i].proposer = Fallback]
                      ELSE seqs
         IN IF Truthy(is_multi_step_worker_instance(registry[p]))
            THEN [seqs |-> after, proposer |-> p, broke |-> TRUE, stop |-> i]
            ELSE ExecScan(after, registry, i + 1, p)

\* ---------------------------------------------------------------------------
\* _get_combined_spec_proposals: partition and merge
\* ---------------------------------------------------------------------------

\* ResolveProposer without the replacement of unknown proposers
ResolveProposerUnchecked(proposer, valid_proposers) == proposer

\* the proposer a sequence is filed under: an unknown one becomes '[ngram]'
ResolveProposer(proposer, valid_proposers) ==
    IF proposer \notin valid_proposers THEN Fallback ELSE proposer

RECURSIVE Partition(_, _, _, _)
\* the partition loop from position idx on: the two dicts proposer_requests
\* (the SequenceGroupMetadata of each proposer) and original_indices
Partition(seqs, valid_proposers, idx, dicts) ==
    IF idx > Len(seqs) THEN dicts
    ELSE IF seqs[idx].proposer = NoParams
    THEN Partition(seqs, valid_proposers, idx + 1, dicts)
    ELSE LET proposer == ResolveProposer(seqs[idx].proposer, valid_proposers)
             fresh == proposer \notin DictKeys(dicts.proposer_requests)
             reqs == IF fresh THEN DictSet(dicts.proposer_requests, proposer, <<>>)
                     ELSE dicts.proposer_requests
             inds == IF fresh THEN DictSet(dicts.original_indices, proposer, <<>>)
                     ELSE dicts.original_indices
         IN Partition(seqs, valid_proposers, idx + 1,
                [proposer_requests |->
                     DictSet(reqs, proposer, Append(DictGet(reqs, proposer), seqs[idx])),
                 original_indices |->
                     DictSet(inds, proposer, Append(DictGet(inds, proposer), idx))])

\* a merged_* slot that was never assigned
None == [by |-> "<None>", request_id |-> 0]

\* What a worker's get_spec_proposals returns for a sub-batch: one row per
\* sequence of the sub-batch, in the sub-batch's order. A row names the
\* worker that produced it and the sequence it was produced for.
WorkerProposals(proposer, sq_list) ==
    [k \in 1..Len(sq_list) |-> [by |-> proposer, request_id |-> sq_list[k].request_id]]

RECURSIVE ScatterRowsReversed(_, _, _, _)
\* ScatterRows pairing the indices with the rows in opposite orders
ScatterRowsReversed(merged, indices, proposals, i) ==
    IF i > Len(indices) THEN merged
    ELSE ScatterRowsReversed(
             [merged EXCEPT ![indices[i]] = proposals[Len(indices) + 1 - i]],
             indices, proposals, i + 1)

RECURSIVE ScatterRows(_, _, _, _)
\* the inner merge loop: row i of proposals goes to position indices[i]
ScatterRows(merged, indices, proposals, i) ==
    IF i > Len(indices) THEN merged
    ELSE ScatterRows([merged EXCEPT ![indices[i]] = proposals[i]],
                     indices, proposals, i + 1)

RECURSIVE MergeProposals(_, _, _, _)
\* the outer merge loop over original_indices.items(), from entry k on
MergeProposals(merged, original_indices, all_proposals, k) ==
    IF k > Len(original_indices) THEN merged
    ELSE MergeProposals(
             ScatterRows(merged, original_indices[k][2],
                         DictGet(all_proposals, original_indices[k][1]), 1),
             original_indices, all_proposals, k + 1)

RECURSIVE CountWrites(_, _)
\* how many assignments the merge loops make to each position: the number of
\* times the position occurs in original_indices
CountWrites(original_indices, idx) ==
    IF Len(original_indices) = 0 THEN 0
    ELSE Cardinality({ i \in 1..Len(original_indices[1][2]) :
                         original_indices[1][2][i] = idx })
         + CountWrites(Tail(original_indices), idx)

\* ---------------------------------------------------------------------------
\* State
\* ---------------------------------------------------------------------------

VARIABLES
    workers,            \* self._workers: proposer name -> worker object
    worker_keys,        \* the keys of self._workers in the dict's order
    batch,              \* the seq_group_metadata_list of the request the caller holds
    pc,                 \* where the coordinator thread stands
    op,                 \* the call in progress or last made, and its policy
    entry,              \* batch as it was when that call was entered
    ret,                \* what that call handed back to its caller
    invoked,            \* the worker methods that call has invoked, in order
    proposer_requests,  \* _get_combined_spec_proposals: its local dicts ...
    original_indices,
    futures,            \* ... the proposers of the submitted futures, in order
    task,               \* ... the state of each submitted task
    finished,           \* ... the proposers of the tasks that ended, in that order
    all_proposals,
    merged              \* ... merged_token_ids / merged_probs / merged_lens

vars == <<workers, worker_keys, batch, pc, op, entry, ret, invoked,
          proposer_requests, original_indices, futures, task, finished,
          all_proposals, merged>>

NoResult == [status |-> "none", exc |-> "", chosen |-> "", rows |-> <<>>]
ReturnProposer(p) == [status |-> "returned", exc |-> "", chosen |-> p, rows |-> <<>>]
ReturnRows(r) == [status |-> "returned", exc |-> "", chosen |-> "", rows |-> r]
Raise(e) == [status |-> "raised", exc |-> e, chosen |-> "", rows |-> <<>>]

NoCall == [name |-> "", policy |-> ""]
Call(n) == [name |-> n, policy |-> ""]

\* one invocation of a worker's method on a list of sequences
Invocation(p, m, seqs) ==
    [worker |-> p, method |-> m,
     seqs |-> [k \in 1..Len(seqs) |-> seqs[k].request_id]]

ClearLocals ==
    /\ proposer_requests' = <<>>
    /\ original_indices' = <<>>
    /\ futures' = <<>>
    /\ task' = <<>>
    /\ finished' = <<>>
    /\ all_proposals' = <<>>
    /\ merged' = <<>>

\* Init of Spec. The calls of Spec test names for membership in the
\* worker_list and never read the order of its keys, so Spec follows one
\* order per worker_list; SpecRegistry follows all of them.
Init ==
    /\ workers \in Registries
    /\ worker_keys = CHOOSE q \in KeyOrders(DOMAIN workers) : TRUE
    /\ batch \in Batches
    /\ pc = "idle"
    /\ op = NoCall
    /\ entry = <<>>
    /\ ret = NoResult
    /\ invoked = <<>>
    /\ proposer_requests = <<>>
    /\ original_indices = <<>>
    /\ futures = <<>>
    /\ task = <<>>
    /\ finished = <<>>
    /\ all_proposals = <<>>
    /\ merged = <<>>

\* _get_proposer_for_this_step(execute_model_req, schedule_policy)
SelectProposer ==
    /\ pc = "idle"
    /\ \E schedule_policy \in Policies :
         LET r == get_proposer_for_this_step(batch, workers, schedule_policy) IN
         /\ op' = [name |-> "_get_proposer_for_this_step", policy |-> schedule_policy]
         /\ ret' = IF r.raised = "" THEN ReturnProposer(r.chosen) ELSE Raise(r.raised)
    /\ entry' = batch
    /\ invoked' = <<>>
    /\ ClearLocals
    /\ UNCHANGED <<workers, worker_keys, batch, pc>>

\* get_spec_proposals(execute_model_req, ...): the chosen worker either
\* returns its proposals for the whole batch or raises
GetSpecProposals ==
    /\ pc = "idle"
    /\ LET chosen_proposer ==
               get_proposer_for_this_step(batch, workers, "proposal_latency").chosen
       IN /\ invoked' = <<Invocation(chosen_proposer, "get_spec_proposals", batch)>>
          /\ \E ok \in BOOLEAN :
               ret' = IF ok THEN ReturnRows(WorkerProposals(chosen_proposer, batch))
                      ELSE Raise("WorkerError")
    /\ op' = Call("get_spec_proposals")
    /\ entry' = batch
    /\ ClearLocals
    /\ UNCHANGED <<workers, worker_keys, batch, pc>>

\* DelegatedRequest handing over only the sequence the scan stopped at
DelegatedOneSequence(s) == <<s.seqs[s.stop]>>

\* the request execute_model hands to the worker: execute_model_req itself
DelegatedRequest(s) == s.seqs

\* execute_model(execute_model_req): the scan, then the delegation of the
\* whole request to the worker the scan stopped at, or [] when it did not stop
ExecuteModel ==
    /\ pc = "idle"
    /\ LET s == ExecScan(batch, workers, 1, Fallback) IN
       /\ batch' = s.seqs
       /\ IF s.broke
          THEN /\ invoked' =
                    <<Invocation(s.proposer, "execute_model", DelegatedRequest(s))>>
               /\ \E ok \in BOOLEAN :
                    ret' = IF ok
                           THEN ReturnRows(WorkerProposals(s.proposer,
                                                           DelegatedRequest(s)))
                           ELSE Raise("WorkerError")
          ELSE /\ invoked' = <<>>
               /\ ret' = ReturnRows(<<>>)
    /\ op' = Call("execute_model")
    /\ entry' = batch
    /\ ClearLocals
    /\ UNCHANGED <<workers, worker_keys, pc>>

\* ExecuteModelNone without the test for None: the scan and the delegation
\* run on the request the caller holds
ExecuteModelNoneScans ==
    /\ pc = "idle"
    /\ LET s == ExecScan(batch, workers, 1, Fallback) IN
       /\ batch' = s.seqs
       /\ invoked' = IF s.broke
                     THEN <<Invocation(s.proposer, "execute_model", s.seqs)>>
                     ELSE <<>>
       /\ ret' = IF s.broke THEN ReturnRows(WorkerProposals(s.proposer, s.seqs))
                 ELSE ReturnRows(<<>>)
    /\ op' = Call("execute_model(None)")
    /\ entry' = batch
    /\ ClearLocals
    /\ UNCHANGED <<workers, worker_keys, pc>>

\* execute_model(None)
ExecuteModelNone ==
    /\ pc = "idle"
    /\ op' = Call("execute_model(None)")
    /\ entry' = batch
    /\ ret' = ReturnRows(<<>>)
    /\ invoked' = <<>>
    /\ ClearLocals
    /\ UNCHANGED <<workers, worker_keys, batch, pc>>

\* the workers' get_spec_proposals calls submitted to the executor, in the
\* order of proposer_requests.items()
SubmittedFutures(requests) ==
    [k \in 1..Len(requests) |-> requests[k][1]]

\* _get_combined_spec_proposals, up to the end of the submissions: the
\* partition loop and one executor.submit per proposer with a non-empty list
CombinedStart ==
    /\ pc = "idle"
    /\ LET d == Partition(batch, DOMAIN workers, 1,
                    [proposer_requests |-> <<>>, original_indices |-> <<>>])
           f == SubmittedFutures(d.proposer_requests)
       IN /\ proposer_requests' = d.proposer_requests
          /\ original_indices' = d.original_indices
          /\ futures' = f
          /\ task' = [p \in { f[k] : k \in 1..Len(f) } |-> "running"]
          /\ invoked' = [k \in 1..Len(f) |->
                 Invocation(f[k], "get_spec_proposals", d.proposer_requests[k][2])]
    /\ finished' = <<>>
    /\ all_proposals' = <<>>
    /\ merged' = <<>>
    /\ pc' = "pool"
    /\ op' = Call("_get_combined_spec_proposals")
    /\ entry' = batch
    /\ ret' = NoResult
    /\ UNCHANGED <<workers, worker_keys, batch>>

\* a pool thread's get_spec_proposals call ends: it returns or it raises
WorkerFinish ==
    /\ \E p \in DOMAIN task :
         /\ task[p] = "running"
         /\ \E outcome \in {"done", "raised"} :
              task' = [task EXCEPT ![p] = outcome]
         /\ finished' = Append(finished, p)
    /\ UNCHANGED <<workers, worker_keys, batch, pc, op, entry, ret, invoked,
                   proposer_requests, original_indices, futures, all_proposals,
                   merged>>

\* Reraises of a future whose exception is swallowed
ReraisesNever(t) == FALSE

\* future.result() re-raises the exception its task ended with
Reraises(t) == t = "raised"

\* one round of `for future in futures`: future.result() blocks until the
\* task has ended, then hands back its proposals or re-raises its exception
FutureResult ==
    /\ pc = "pool"
    /\ Len(all_proposals) < Len(futures)
    /\ LET proposer == futures[Len(all_proposals) + 1] IN
       /\ task[proposer] # "running"
       /\ IF ~Reraises(task[proposer])
          THEN /\ all_proposals' =
                     DictSet(all_proposals, proposer,
                         WorkerProposals(proposer, DictGet(proposer_requests, proposer)))
               /\ pc' = "pool"
          ELSE /\ all_proposals' = all_proposals
               /\ pc' = "unwind"
    /\ UNCHANGED <<workers, worker_keys, batch, op, entry, ret, invoked,
                   proposer_requests, original_indices, futures, task, finished,
                   merged>>

\* PoolDrained of an executor shut down with wait=False
PoolDrainedNoWait(t) == TRUE

\* the executor's shutdown(wait=True) at the end of the with block returns
\* once no task is running
PoolDrained(t) == \A p \in DOMAIN t : t[p] # "running"

\* the with block is left: normally after the last future, or by the
\* exception of a future, which then leaves the call
PoolExit ==
    /\ \/ pc = "pool" /\ Len(all_proposals) = Len(futures)
       \/ pc = "unwind"
    /\ PoolDrained(task)
    /\ IF pc = "unwind"
       THEN /\ pc' = "idle"
            /\ ret' = Raise("WorkerError")
       ELSE /\ pc' = "merge"
            /\ ret' = ret
    /\ UNCHANGED <<workers, worker_keys, batch, op, entry, invoked,
                   proposer_requests, original_indices, futures, task,
                   finished, all_proposals, merged>>

\* the merged_* lists are allocated and the merge loops fill them
Merge ==
    /\ pc = "merge"
    /\ merged' = MergeProposals([i \in 1..Len(batch) |-> None],
                                original_indices, all_proposals, 1)
    /\ pc' = "stack"
    /\ UNCHANGED <<workers, worker_keys, batch, op, entry, ret, invoked,
                   proposer_requests, original_indices, futures, task,
                   finished, all_proposals>>

\* StackMerged that stacks whatever the slots hold
StackMergedUnchecked(m) ==
    IF Len(m) = 0 THEN Raise("RuntimeError") ELSE ReturnRows(m)

\* torch.stack(merged_*): RuntimeError on an empty list, TypeError on a list
\* with a None in it, else the combined proposals
StackMerged(m) ==
    IF Len(m) = 0 THEN Raise("RuntimeError")
    ELSE IF \E i \in 1..Len(m) : m[i] = None THEN Raise("TypeError")
    ELSE ReturnRows(m)

\* SpeculativeProposals(...) is built and returned
CombinedReturn ==
    /\ pc = "stack"
    /\ ret' = StackMerged(merged)
    /\ pc' = "idle"
    /\ UNCHANGED <<workers, worker_keys, batch, op, entry, invoked,
                   proposer_requests, original_indices, futures, task,
                   finished, all_proposals, merged>>

Next ==
    \/ SelectProposer
    \/ GetSpecProposals
    \/ ExecuteModelNone
    \/ ExecuteModel
    \/ CombinedStart
    \/ WorkerFinish
    \/ FutureResult
    \/ PoolExit
    \/ Merge
    \/ CombinedReturn

Spec == Init /\ [][Next]_vars

\* ---------------------------------------------------------------------------
\* The calls that go through the registry
\* ---------------------------------------------------------------------------

RECURSIVE AnyFirstWorker(_, _, _)
\* FirstMultiStepWorker without the probe: the first worker of the dict
AnyFirstWorker(keys, registry, k) ==
    IF k > Len(keys) THEN "" ELSE keys[k]

RECURSIVE FirstMultiStepWorker(_, _, _)
\* `for worker in self._workers.values(): if <probe>: return worker.<m>()`,
\* from entry k on: the name of the worker the loop returns from, "" when
\* the loop runs out
FirstMultiStepWorker(keys, registry, k) ==
    IF k > Len(keys) THEN ""
    ELSE IF Truthy(is_multi_step_worker_instance(registry[keys[k]])) THEN keys[k]
    ELSE FirstMultiStepWorker(keys, registry, k + 1)

\* MultiStepWorkers without the probe: every worker of the dict
EveryWorker(keys, registry) == keys

\* `for worker in self._workers.values(): if <probe>: worker.<m>()`: the
\* workers the loop calls, in the dict's order
MultiStepWorkers(keys, registry) ==
    SelectSeq(keys, LAMBDA w : Truthy(is_multi_step_worker_instance(registry[w])))

\* a call of method m, without sequences, on each worker of ws in turn
Broadcast(ws, m) == [k \in 1..Len(ws) |-> Invocation(ws[k], m, <<>>)]

\* a value the coordinator returns by itself: None, 0 or (-1, -1)
ReturnOwn(v) == [status |-> "returned", exc |-> "", chosen |-> v, rows |-> <<>>]

\* the value worker w returned, handed on as it is
ReturnOf(w) ==
    [status |-> "returned", exc |-> "", chosen |-> "",
     rows |-> <<[by |-> w, request_id |-> 0]>>]

\* the frame of a call that runs in one step and rewrites no assignment
OneStepCall(name) ==
    /\ pc = "idle"
    /\ op' = Call(name)
    /\ entry' = batch
    /\ ClearLocals
    /\ UNCHANGED <<workers, worker_keys, batch, pc>>

\* init_device()
InitDevice ==
    /\ OneStepCall("init_device")
    /\ invoked' = Broadcast(worker_keys, "init_device")
    /\ ret' = ReturnOwn("None")

\* load_model()
LoadModel ==
    /\ OneStepCall("load_model")
    /\ invoked' = Broadcast(worker_keys, "load_model")
    /\ ret' = ReturnOwn("None")

\* set_include_gpu_probs_tensor()
SetIncludeGpuProbsTensor ==
    /\ OneStepCall("set_include_gpu_probs_tensor")
    /\ invoked' = Broadcast(MultiStepWorkers(worker_keys, workers),
                            "set_include_gpu_probs_tensor")
    /\ ret' = ReturnOwn("None")

\* get_cache_block_size_bytes()
GetCacheBlockSizeBytes ==
    /\ OneStepCall("get_cache_block_size_bytes")
    /\ LET w == FirstMultiStepWorker(worker_keys, workers, 1) IN
       IF w # ""
       THEN /\ invoked' = Broadcast(<<w>>, "get_cache_block_size_bytes")
            /\ ret' = ReturnOf(w)
       ELSE /\ invoked' = <<>>
            /\ ret' = ReturnOwn("0")

\* determine_num_available_blocks()
DetermineNumAvailableBlocks ==
    /\ OneStepCall("determine_num_available_blocks")
    /\ LET w == FirstMultiStepWorker(worker_keys, workers, 1) IN
       IF w # ""
       THEN /\ invoked' = Broadcast(<<w>>, "determine_num_available_blocks")
            /\ ret' = ReturnOf(w)
       ELSE /\ invoked' = <<>>
            /\ ret' = ReturnOwn("(-1, -1)")

\* initialize_cache(num_gpu_blocks, num_cpu_blocks)
InitializeCache ==
    /\ OneStepCall("initialize_cache")
    /\ invoked' = Broadcast(MultiStepWorkers(worker_keys, workers),
                            "initialize_cache")
    /\ ret' = ReturnOwn("None")

\* the call is_multi_step_worker_instance(self._workers[w])
ProbeCall(w) == [name |-> "is_multi_step_worker_instance", policy |-> w]

\* is_multi_step_worker_instance applied to a worker of the registry
ProbeWorker ==
    /\ pc = "idle"
    /\ \E w \in DOMAIN workers :
         /\ op' = ProbeCall(w)
         /\ ret' = ReturnOwn(is_multi_step_worker_instance(workers[w]))
    /\ invoked' = <<>>
    /\ entry' = batch
    /\ ClearLocals
    /\ UNCHANGED <<workers, worker_keys, batch, pc>>

InitRegistry ==
    /\ workers \in WrappedRegistries
    /\ worker_keys \in KeyOrders(DOMAIN workers)
    /\ batch \in ShortBatches
    /\ pc = "idle"
    /\ op = NoCall
    /\ entry = <<>>
    /\ ret = NoResult
    /\ invoked = <<>>
    /\ proposer_requests = <<>>
    /\ original_indices = <<>>
    /\ futures = <<>>
    /\ task = <<>>
    /\ finished = <<>>
    /\ all_proposals = <<>>
    /\ merged = <<>>

NextRegistry ==
    \/ InitDevice
    \/ LoadModel
    \/ SetIncludeGpuProbsTensor
    \/ GetCacheBlockSizeBytes
    \/ DetermineNumAvailableBlocks
    \/ InitializeCache
    \/ ProbeWorker
    \/ GetSpecProposals
    \/ ExecuteModelNone
    \/ ExecuteModel

SpecRegistry == InitRegistry /\ [][NextRegistry]_vars

\* ---------------------------------------------------------------------------
\* Properties
\* ---------------------------------------------------------------------------

Combined == "_get_combined_spec_proposals"
Selector == "_get_proposer_for_this_step"

\* the strategy the specification resolves an assignment to: a registered
\* name is itself, an absent or unregistered one is the fallback
SpecResolved(p) == IF p \in DOMAIN workers THEN p ELSE Fallback

\* the assignment is present and names no registered worker
Unknown(p) == p # NoParams /\ p \notin DOMAIN workers

\* the number of partitions' index lists position idx is recorded in
RecordedIn(idx) ==
    Cardinality({ k \in 1..Len(original_indices) :
                    \E i \in 1..Len(original_indices[k][2]) :
                        original_indices[k][2][i] = idx })

\* C1 (as claimed): in a partitioned call every index of the batch, the ones
\* of sequences without an assignment included, is recorded in exactly one
\* partition, and once the merge has run every output position has been
\* written exactly once.
C1_EveryIndexInOnePartitionAndWrittenOnce ==
    op.name = Combined =>
        \A idx \in 1..Len(entry) :
            /\ RecordedIn(idx) = 1
            /\ pc = "stack" =>
                   /\ CountWrites(original_indices, idx) = 1
                   /\ merged[idx] # None

\* C2: whenever a partitioned call returns, row i of the returned proposals
\* is the row the worker of sequence i's resolved proposer produced for
\* sequence i, whatever the order the tasks ended in.
C2_MergedRowsInBatchOrder ==
    (op.name = Combined /\ ret.status = "returned") =>
        /\ Len(ret.rows) = Len(entry)
        /\ \A i \in 1..Len(entry) :
               ret.rows[i] = [by |-> SpecResolved(entry[i].proposer),
                              request_id |-> entry[i].request_id]

\* C2 witness: a call returned rows of several workers, the sequences of one
\* worker not being adjacent, and the first task to end was not the first one
\* submitted.
C2_Witness ==
    /\ op.name = Combined
    /\ ret.status = "returned"
    /\ Len(futures) >= 2
    /\ finished[1] # futures[1]
    /\ Len(entry) = 3
    /\ ret.rows[1].by = ret.rows[3].by
    /\ ret.rows[1].by # ret.rows[2].by

\* C3: a partitioned call in which some submitted task raised never returns
\* proposals, and has raised once it is over.
C3_FailTogether ==
    (op.name = Combined /\ \E p \in DOMAIN task : task[p] = "raised") =>
        /\ ret.status # "returned"
        /\ pc = "idle" => ret.status = "raised"

\* C3 witness: the call is over and raised although the first submitted task
\* returned its proposals and only a later one raised.
C3_Witness ==
    /\ op.name = Combined
    /\ pc = "idle"
    /\ ret.status = "raised"
    /\ Len(futures) >= 2
    /\ task[futures[1]] = "done"
    /\ \E k \in 2..Len(futures) : task[futures[k]] = "raised"

\* C4: while a task of a partitioned call is still running, the call has
\* handed nothing to its caller and no merged slot has been allocated or
\* written.
C4_JoinAllBarrier ==
    (op.name = Combined /\ \E p \in DOMAIN task : task[p] = "running") =>
        /\ ret = NoResult
        /\ merged = <<>>
        /\ pc \in {"pool", "unwind"}

\* C4 witness: the merge has written rows of two tasks, the second of which
\* was submitted first and ended last.
C4_Witness ==
    /\ op.name = Combined
    /\ pc = "stack"
    /\ Len(futures) = 2
    /\ finished = <<futures[2], futures[1]>>
    /\ \A i \in 1..Len(merged) : merged[i] # None

\* the positions of entry whose assignment is present and registered
ValidAt == { i \in 1..Len(entry) : entry[i].proposer \in DOMAIN workers }

\* the largest element of a non-empty set of positions
Last(S) == CHOOSE i \in S : \A j \in S : j <= i

\* the smallest element of a non-empty set of positions
First(S) == CHOOSE i \in S : \A j \in S : i <= j

\* C5: under the policies "proposal_latency" and "popularity" the selector
\* returns, for every batch, a name that is a key of the registry.
C5_SelectorReturnsRegisteredName ==
    (op.name = Selector /\ op.policy \in {"proposal_latency", "popularity"}) =>
        /\ ret.status = "returned"
        /\ ret.chosen \in DOMAIN workers

\* C5 witness: the selector returned a registered name other than the
\* fallback for a batch that also holds an unknown assignment and a sequence
\* without an assignment.
C5_Witness ==
    /\ op.name = Selector
    /\ op.policy = "proposal_latency"
    /\ ret.status = "returned"
    /\ ret.chosen # Fallback
    /\ \E i \in 1..Len(entry) : Unknown(entry[i].proposer)
    /\ \E i \in 1..Len(entry) : entry[i].proposer = NoParams

\* C6: under "proposal_latency", a batch in which some sequence is assigned
\* the fallback yields the fallback.
C6_LatencyFallbackShortCircuit ==
    (/\ op.name = Selector
     /\ op.policy = "proposal_latency"
     /\ \E i \in 1..Len(entry) : entry[i].proposer = Fallback) =>
        ret = ReturnProposer(Fallback)

\* C6 witness: the fallback was returned for a batch that assigns it between
\* two sequences assigned registered proposers other than the fallback.
C6_Witness ==
    /\ op.name = Selector
    /\ op.policy = "proposal_latency"
    /\ ret = ReturnProposer(Fallback)
    /\ Len(entry) = 3
    /\ entry[2].proposer = Fallback
    /\ {1, 3} \subseteq ValidAt
    /\ entry[1].proposer # Fallback
    /\ entry[3].proposer # Fallback

\* C7: under "proposal_latency", a batch in which no sequence is assigned the
\* fallback yields the assignment of the last sequence whose assignment is
\* registered, and the fallback when there is none (the empty batch included).
C7_LatencyLastValidWins ==
    (/\ op.name = Selector
     /\ op.policy = "proposal_latency"
     /\ \A i \in 1..Len(entry) : entry[i].proposer # Fallback) =>
        ret = ReturnProposer(IF ValidAt = {} THEN Fallback
                             ELSE entry[Last(ValidAt)].proposer)

\* C7 witness: two different registered proposers are assigned, the earlier
\* one again last ({A, B, A}), and the last one was returned.
C7_Witness ==
    /\ op.name = Selector
    /\ op.policy = "proposal_latency"
    /\ Len(entry) = 3
    /\ ValidAt = {1, 2, 3}
    /\ entry[1].proposer = entry[3].proposer
    /\ entry[1].proposer # entry[2].proposer
    /\ \A i \in 1..3 : entry[i].proposer # Fallback
    /\ ret = ReturnProposer(entry[3].proposer)

\* the number of sequences of entry that carry the registered name p
Votes(p) == Cardinality({ i \in ValidAt : entry[i].proposer = p })

\* the position of the first sequence of entry that carries p
FirstOf(p) == First({ i \in ValidAt : entry[i].proposer = p })

\* C8: under "popularity" the selector returns a registered name carried by
\* the largest number of sequences and, among the names carried that often,
\* the one that occurs first in the batch; it returns the fallback when no
\* sequence carries a registered name.
C8_PopularityMaxFirstSeen ==
    (op.name = Selector /\ op.policy = "popularity") =>
        /\ ret.status = "returned"
        /\ IF ValidAt = {}
           THEN ret.chosen = Fallback
           ELSE /\ ret.chosen \in DOMAIN workers
                /\ Votes(ret.chosen) > 0
                /\ \A q \in DOMAIN workers :
                       \/ Votes(q) < Votes(ret.chosen)
                       \/ /\ Votes(q) = Votes(ret.chosen)
                          /\ FirstOf(ret.chosen) <= FirstOf(q)

\* C8 witness: two registered names tie and the one returned is the one seen
\* first, a third sequence in between carrying an unknown name.
C8_Witness ==
    /\ op.name = Selector
    /\ op.policy = "popularity"
    /\ Len(entry) = 3
    /\ ValidAt = {1, 3}
    /\ Unknown(entry[2].proposer)
    /\ entry[1].proposer # entry[3].proposer
    /\ ret = ReturnProposer(entry[1].proposer)

\* the positions of entry whose present assignment, an unregistered one
\* taken as the fallback, names a worker the probe finds model-stepping
SteppingAt ==
    { i \in 1..Len(entry) :
        /\ entry[i].proposer # NoParams
        /\ Truthy(is_multi_step_worker_instance(
               workers[SpecResolved(entry[i].proposer)])) }

\* the position the scan of execute_model stops at: the first of SteppingAt,
\* or past the end of the batch
ScanStop == IF SteppingAt = {} THEN Len(entry) + 1 ELSE First(SteppingAt)

\* the calls that scan the assignments of the batch
ScanningCalls == {Selector, "get_spec_proposals", "execute_model", Combined}

\* C9 (as claimed): after any call that scans the assignments, every sequence
\* that entered the call with an unknown assignment reads the fallback.
C9_EveryScanCoercesUnknown ==
    (op.name \in ScanningCalls /\ pc = "idle") =>
        \A i \in 1..Len(entry) :
            Unknown(entry[i].proposer) => batch[i].proposer = Fallback

\* C9 (amended): execute_model rewrites to the fallback exactly the unknown
\* assignments at the positions up to the one its scan stops at, and leaves
\* every other assignment as it was; the selector, get_spec_proposals and
\* _get_combined_spec_proposals rewrite no assignment.
C9_OnlyExecuteModelCoercesUpToStop ==
    /\ op.name = "execute_model" =>
           batch = [i \in 1..Len(entry) |->
                       IF Unknown(entry[i].proposer) /\ i <= ScanStop
                       THEN [entry[i] EXCEPT !.proposer = Fallback]
                       ELSE entry[i]]
    /\ op.name \in ScanningCalls \ {"execute_model"} => batch = entry

\* C9 witness: execute_model has rewritten an unknown assignment before the
\* position it stopped at and left one after it unknown.
C9_Witness ==
    /\ op.name = "execute_model"
    /\ Len(entry) = 3
    /\ ScanStop = 2
    /\ Unknown(entry[1].proposer)
    /\ batch[1].proposer = Fallback
    /\ Unknown(entry[3].proposer)
    /\ batch[3].proposer = entry[3].proposer

\* C10 (as claimed): the worker whose execute_model is invoked is the one the
\* selector returns for the batch under "proposal_latency".
C10_ExecuteModelUsesLatencyChoice ==
    (op.name = "execute_model" /\ invoked # <<>>) =>
        invoked[1].worker = LatencyChoice(entry, DOMAIN workers)

\* the present assignments of entry all carry one name
OneNameAssigned ==
    \A i, j \in 1..Len(entry) :
        (entry[i].proposer # NoParams /\ entry[j].proposer # NoParams)
            => entry[i].proposer = entry[j].proposer

\* C10 (amended): the worker whose execute_model is invoked is that of the
\* first sequence whose present assignment resolves to a model-stepping
\* worker; it is the selector's "proposal_latency" choice whenever all
\* present assignments of the batch carry the same name.
C10_ExecuteModelUsesFirstStepping ==
    (op.name = "execute_model" /\ invoked # <<>>) =>
        /\ SteppingAt # {}
        /\ invoked[1].method = "execute_model"
        /\ invoked[1].worker = SpecResolved(entry[First(SteppingAt)].proposer)
        /\ OneNameAssigned =>
               invoked[1].worker = LatencyChoice(entry, DOMAIN workers)

\* C10 witness: two different model-stepping proposers are assigned after a
\* sequence of a heuristic one, and execute_model went to the first of them.
C10_Witness ==
    /\ op.name = "execute_model"
    /\ invoked # <<>>
    /\ Len(entry) = 3
    /\ SteppingAt = {2, 3}
    /\ entry[1].proposer # NoParams
    /\ entry[2].proposer # entry[3].proposer
    /\ invoked[1].worker = entry[2].proposer

\* the request ids of entry, in batch order
EntryIds == [k \in 1..Len(entry) |-> entry[k].request_id]

\* C11: when some sequence's present assignment resolves to a model-stepping
\* worker, execute_model makes exactly one invocation: execute_model of the
\* worker of the first such sequence, on all the sequences of the batch.
C11_ExecuteModelDelegatesWholeBatchOnce ==
    (op.name = "execute_model" /\ SteppingAt # {}) =>
        invoked = <<[worker |-> SpecResolved(entry[First(SteppingAt)].proposer),
                     method |-> "execute_model",
                     seqs |-> EntryIds]>>

\* C11 witness: the scan passed a sequence assigned a heuristic worker,
\* stopped at the second sequence and delegated all three sequences, the
\* third being assigned another model-stepping worker.
C11_Witness ==
    /\ op.name = "execute_model"
    /\ Len(entry) = 3
    /\ SteppingAt = {2, 3}
    /\ entry[1].proposer \in DOMAIN workers
    /\ entry[2].proposer # entry[3].proposer
    /\ Len(invoked) = 1
    /\ invoked[1].worker = entry[2].proposer
    /\ invoked[1].seqs = <<101, 102, 103>>

\* C12: on a non-empty batch in which no sequence resolves to a
\* model-stepping worker, execute_model returns [] and invokes nothing.
C12_NoSteppingNoExecution ==
    (op.name = "execute_model" /\ Len(entry) > 0 /\ SteppingAt = {}) =>
        /\ ret = ReturnRows(<<>>)
        /\ invoked = <<>>

\* C12 witness: [] was returned for a batch holding a sequence without an
\* assignment, one assigned a registered heuristic worker and one with an
\* unknown assignment, while a model-stepping worker is registered.
C12_Witness ==
    /\ op.name = "execute_model"
    /\ ret = ReturnRows(<<>>)
    /\ invoked = <<>>
    /\ \E i, j, k \in 1..Len(entry) :
           /\ entry[i].proposer = NoParams
           /\ entry[j].proposer \in DOMAIN workers
           /\ Unknown(entry[k].proposer)
    /\ \E w \in DOMAIN workers : workers[w] = MultiStep

\* C13: execute_model on no request, or on a request with an empty batch,
\* returns [], invokes nothing and leaves the caller's sequences as they
\* were, whatever calls came before it.
C13_EmptyRequestIsNoOp ==
    (\/ op.name = "execute_model(None)"
     \/ op.name = "execute_model" /\ entry = <<>>) =>
        /\ ret = ReturnRows(<<>>)
        /\ invoked = <<>>
        /\ batch = entry

\* C13 witness: execute_model(None) returned [] while the caller holds a
\* request with an unknown assignment and a model-stepping one, which a call
\* with that request would have rewritten and delegated.
C13_Witness ==
    /\ op.name = "execute_model(None)"
    /\ ret = ReturnRows(<<>>)
    /\ \E i \in 1..Len(batch) : Unknown(batch[i].proposer)
    /\ \E i \in 1..Len(batch) :
           /\ batch[i].proposer \in DOMAIN workers
           /\ workers[batch[i].proposer] = MultiStep

\* C14: the selector raises NotImplementedError under "proposal_quality" and
\* ValueError under any policy it does not know, for every batch; it then
\* returns no proposer, invokes nothing and rewrites no assignment.
C14_UnsupportedPoliciesRaise ==
    (op.name = Selector /\ op.policy \notin {"popularity", "proposal_latency"}) =>
        /\ ret = Raise(IF op.policy = "proposal_quality"
                       THEN "NotImplementedError" ELSE "ValueError")
        /\ invoked = <<>>
        /\ batch = entry

\* C14 witness: ValueError was raised for a policy that is none of the three
\* named ones, on a batch with an unknown assignment.
C14_Witness ==
    /\ op.name = Selector
    /\ op.policy \notin {"popularity", "proposal_latency", "proposal_quality"}
    /\ ret = Raise("ValueError")
    /\ \E i \in 1..Len(entry) : Unknown(entry[i].proposer)

\* the proposer the "proposal_latency" policy stands for: the fallback when
\* a sequence is assigned it or none is assigned a registered proposer, else
\* the last registered assignment
LatencyGreedy ==
    IF \E i \in 1..Len(entry) : entry[i].proposer = Fallback THEN Fallback
    ELSE IF ValidAt = {} THEN Fallback
    ELSE entry[Last(ValidAt)].proposer

\* C15: get_spec_proposals makes exactly one invocation: get_spec_proposals
\* of the worker the "proposal_latency" policy selects, on all the sequences
\* of the batch; it sets up no partition and submits no task.
C15_GetSpecProposalsOneWorkerWholeBatch ==
    op.name = "get_spec_proposals" =>
        /\ invoked = <<[worker |-> LatencyGreedy,
                        method |-> "get_spec_proposals",
                        seqs |-> EntryIds]>>
        /\ proposer_requests = <<>>
        /\ futures = <<>>
        /\ ret.status = "returned" =>
               ret.rows = [k \in 1..Len(entry) |->
                              [by |-> LatencyGreedy,
                               request_id |-> entry[k].request_id]]

\* C15 witness: a batch assigning two different registered proposers, the
\* more requested one first, went whole to the worker assigned last.
C15_Witness ==
    /\ op.name = "get_spec_proposals"
    /\ ret.status = "returned"
    /\ Len(entry) = 3
    /\ ValidAt = {1, 2, 3}
    /\ entry[1].proposer = entry[2].proposer
    /\ entry[2].proposer # entry[3].proposer
    /\ invoked[1].worker = entry[3].proposer
    /\ invoked[1].seqs = <<101, 102, 103>>

\* the positions of entry whose present assignment is filed under p
MembersOf(p) ==
    { i \in 1..Len(entry) :
        entry[i].proposer # NoParams /\ SpecResolved(entry[i].proposer) = p }

\* q lists the elements of the set of positions S in increasing order
Ascending(q, S) ==
    /\ Len(q) = Cardinality(S)
    /\ \A k \in 1..Len(q) : q[k] \in S
    /\ \A k \in 1..(Len(q) - 1) : q[k] < q[k + 1]

\* the invocations the call has made on worker p
InvocationsOf(p) == { k \in 1..Len(invoked) : invoked[k].worker = p }

C18_UnwrittenSlotRaises ==
    op.name = Combined =>
        /\ ret.status = "returned" =>
               \A i \in 1..Len(ret.rows) : ret.rows[i] # None
        /\ (pc = "idle" /\ \E i \in 1..Len(merged) : merged[i] = None) =>
               ret.status = "raised"

\* C18 witness: the merge wrote the rows of one sequence, left the slot of a
\* sequence without an assignment unwritten, and the call raised.
C18_Witness ==
    /\ op.name = Combined
    /\ pc = "idle"
    /\ ret = Raise("TypeError")
    /\ \E i \in 1..Len(merged) : merged[i] = None
    /\ \E i \in 1..Len(merged) : merged[i] # None

\* C19: no step changes the registry or the number or identity of the
\* sequences; an assignment that is absent or registered is never changed,
\* and an assignment that changes becomes the fallback.
C19_OnlyUnknownBecomesFallback ==
    [][/\ workers' = workers
       /\ worker_keys' = worker_keys
       /\ Len(batch') = Len(batch)
       /\ \A i \in 1..Len(batch) :
              /\ batch'[i].request_id = batch[i].request_id
              /\ batch'[i].proposer # batch[i].proposer =>
                     /\ Unknown(batch[i].proposer)
                     /\ batch'[i].proposer = Fallback]_vars

\* C19 witness: a call has changed an assignment of a batch that also holds
\* a registered assignment other than the fallback and an absent one.
C19_Witness ==
    /\ op.name = "execute_model"
    /\ batch # entry
    /\ \E i \in 1..Len(entry) : entry[i].proposer = NoParams
    /\ \E i \in 1..Len(entry) :
           entry[i].proposer \in DOMAIN workers \ {Fallback}

\* C16 (as claimed): the probe returns True when the innermost worker of the
\* chain is a MultiStepWorker and False otherwise, a wrapper without a
\* _worker included, and has no side effect.
C16_ProbeTrueIffInnermostMultiStep ==
    op.name = "is_multi_step_worker_instance" =>
        /\ LET obj == workers[op.policy] IN
           ret = ReturnOwn(IF obj[Len(obj)] = "MultiStepWorker"
                           THEN "True" ELSE "False")
        /\ invoked = <<>>
        /\ batch = entry

\* the worker methods only a model-stepping worker has
SteppingOnlyMethods ==
    {"execute_model", "set_include_gpu_probs_tensor",
     "get_cache_block_size_bytes", "determine_num_available_blocks",
     "initialize_cache"}

\* the positions of the dict whose worker the probe finds model-stepping
SteppingKeys ==
    { k \in 1..Len(worker_keys) :
        is_multi_step_worker_instance(workers[worker_keys[k]]) = "True" }

\* C20: no call invokes a method of SteppingOnlyMethods on a worker the probe
\* does not find model-stepping; get_cache_block_size_bytes and
\* determine_num_available_blocks hand on the answer of the first
\* model-stepping worker in the dict's order, and return 0 and (-1, -1)
\* without invoking anything when there is none.
C20_SteppingOnlyMethodsOnSteppingWorkers ==
    /\ \A k \in 1..Len(invoked) :
           invoked[k].method \in SteppingOnlyMethods =>
               is_multi_step_worker_instance(workers[invoked[k].worker]) = "True"
    /\ op.name \in {"get_cache_block_size_bytes",
                    "determine_num_available_blocks"} =>
           IF SteppingKeys = {}
           THEN /\ invoked = <<>>
                /\ ret = ReturnOwn(IF op.name = "get_cache_block_size_bytes"
                                   THEN "0" ELSE "(-1, -1)")
           ELSE /\ invoked = <<[worker |-> worker_keys[First(SteppingKeys)],
                                method |-> op.name,
                                seqs |-> <<>>]>>
                /\ ret = ReturnOf(worker_keys[First(SteppingKeys)])

\* C20 witness: get_cache_block_size_bytes passed a heuristic worker that
\* comes first in the dict and handed on the answer of the second worker, a
\* wrapper around a MultiStepWorker, a MultiStepWorker coming third.
C20_Witness ==
    /\ op.name = "get_cache_block_size_bytes"
    /\ Len(worker_keys) = 3
    /\ workers[worker_keys[1]] = NGram
    /\ workers[worker_keys[2]] = SmallerTp
    /\ workers[worker_keys[3]] = MultiStep
    /\ ret = ReturnOf(worker_keys[2])
    /\ Len(invoked) = 1

====
